---- MODULE Spec2Model ----
(***************************************************************************)
(* A model of syncthingmanager's entity-resolution and mutation layer      *)
(* (src/syncthingmanager/__init__.py, class SyncthingManager).             *)
(*                                                                         *)
(* The daemon owns one configuration document {devices, folders}.  Every   *)
(* self.system.config() call is a fresh fetch of that document and every   *)
(* self.system.set_config(config) call replaces it whole.  Each method of  *)
(* SyncthingManager is an operator over the snapshots its fetches return,  *)
(* in the order the code performs them; the single-writer specification    *)
(* hands every fetch of one call the same document.                        *)
(*                                                                         *)
(* Python list positions are 0-based: position i of a Python list is       *)
(* element i + 1 of the TLA+ sequence that models it.                      *)
(***************************************************************************)
EXTENDS Integers, Sequences, FiniteSets, TLC

VARIABLES daemon, last

vars == <<daemon, last>>

----------------------------------------------------------------------------
(* Bounds of the model.                                                    *)

\* longest devices list of a document
MaxDevices == 2

\* longest folders list of a document
MaxFolders == 2

----------------------------------------------------------------------------
(* Values.                                                                 *)

\* Python's None where a string is expected (device_id, device_name)
None == "None"

\* Python's None where a list position is expected (deviceindex = None)
NoIndex == -1

\* device IDs in the daemon's canonical form
CanonIDs == {"AAA", "BBB"}

\* strings a user may pass where a device is expected: canonical IDs, a
\* non-canonical spelling of one, and a plain name
DeviceStrs == {"AAA", "aaa", "BBB", "bob"}

\* names a device may carry: a plain name, and a name that is also a
\* well-formed spelling of a device ID
DeviceNames == {"bob", "aaa"}

\* folder ids, and strings a folder label may hold (one collides with an id)
FolderIDs == {"f1", "f2"}
FolderLabels == {"f2", "lab"}
FolderStrs == FolderIDs \cup FolderLabels

\* the name, address, dynamic and introducer arguments add_device is called
\* with: every two values of two arguments occur together in some call
AddDeviceArgs ==
    {[name |-> "bob", address |-> "", dynamic |-> FALSE, introducer |-> FALSE],
     [name |-> "bob", address |-> "tcp://a1", dynamic |-> TRUE, introducer |-> TRUE],
     [name |-> "aaa", address |-> "", dynamic |-> TRUE, introducer |-> TRUE],
     [name |-> "aaa", address |-> "tcp://a1", dynamic |-> FALSE, introducer |-> TRUE],
     [name |-> "aaa", address |-> "tcp://a1", dynamic |-> TRUE, introducer |-> FALSE]}

----------------------------------------------------------------------------
(* Helpers for Python lists.                                               *)

\* list[i] for a 0-based position i
At(list, i) == list[i + 1]

\* del list[i] for a 0-based position i that is in range
DelAt(list, i) == [k \in 1..(Len(list) - 1) |-> IF k <= i THEN list[k] ELSE list[k + 1]]

\* list[i] = value (item assignment) for a 0-based position i in range
SetAt(list, i, value) == [list EXCEPT ![i + 1] = value]

\* the 0-based position at which "for index, x in enumerate(list)" with a
\* break at the first match stops, given the positions that match; NoIndex
\* when the loop runs to its end
FirstIndex(matches) ==
    IF matches = {} THEN NoIndex
    ELSE (CHOOSE k \in matches : \A j \in matches : k <= j) - 1

----------------------------------------------------------------------------
(* The daemon's device-ID canonicalisation, as device_info consumes it.    *)

\* the daemon's normal form of a well-formed ID: upper case
ToUpper(s) == CASE s = "aaa" -> "AAA" [] s = "bbb" -> "BBB" [] OTHER -> s

\* self.misc.device_id(devicestr) under "except SyncthingError: device_id =
\* None": the canonical ID of a well-formed ID, None for any other string
misc_device_id(devicestr) ==
    IF ToUpper(devicestr) \in CanonIDs THEN ToUpper(devicestr) ELSE None

----------------------------------------------------------------------------
(* EntityResolver: device_info and folder_info.                            *)

\* the folders list device_info collects: folder['id'] once for every entry
\* d of folder['devices'] with d['deviceID'] == device_id, folders in order
RECURSIVE AssociatedFolders(_, _)
AssociatedFolders(folders, device_id) ==
    IF folders = <<>> THEN <<>>
    ELSE LET folder == Head(folders)
             hits == SelectSeq(folder.devices, LAMBDA d : d.deviceID = device_id)
         IN [k \in 1..Len(hits) |-> folder.id] \o AssociatedFolders(Tail(folders), device_id)

\* device_info with the name scan tried before the ID scan
device_info_nameFirst(config, devicestr) ==
    LET device_id == misc_device_id(devicestr)
        byName == FirstIndex({k \in 1..Len(config.devices) : devicestr = config.devices[k].name})
        byID == FirstIndex({k \in 1..Len(config.devices) : device_id = config.devices[k].deviceID})
    IN IF byName # NoIndex
       THEN [id |-> At(config.devices, byName).deviceID,
             index |-> byName,
             folders |-> AssociatedFolders(config.folders,
                                           At(config.devices, byName).deviceID),
             name |-> At(config.devices, byName).name]
       ELSE IF device_id # None /\ byID # NoIndex
       THEN [id |-> device_id,
             index |-> byID,
             folders |-> AssociatedFolders(config.folders, device_id),
             name |-> At(config.devices, byID).name]
       ELSE [id |-> device_id, index |-> NoIndex, folders |-> <<>>, name |-> None]

\* the 0-based position a scan that does not break at its first match ends
\* with: that of the last match
LastIndex(matches) ==
    IF matches = {} THEN NoIndex
    ELSE (CHOOSE k \in matches : \A j \in matches : k >= j) - 1

\* device_info whose name scan does not break at the first match
device_info_noBreak(config, devicestr) ==
    LET device_id == misc_device_id(devicestr)
        byName == LastIndex({k \in 1..Len(config.devices) : devicestr = config.devices[k].name})
        byID == FirstIndex({k \in 1..Len(config.devices) : device_id = config.devices[k].deviceID})
    IN IF device_id = None
       THEN IF byName # NoIndex
            THEN [id |-> At(config.devices, byName).deviceID,
                  index |-> byName,
                  folders |-> AssociatedFolders(config.folders,
                                                At(config.devices, byName).deviceID),
                  name |-> At(config.devices, byName).name]
            ELSE [id |-> None, index |-> NoIndex, folders |-> <<>>, name |-> None]
       ELSE IF byID # NoIndex
            THEN [id |-> device_id,
                  index |-> byID,
                  folders |-> AssociatedFolders(config.folders, device_id),
                  name |-> At(config.devices, byID).name]
            ELSE [id |-> device_id, index |-> NoIndex, folders |-> <<>>, name |-> None]

\* device_info that forgets the canonical ID when no device carries it
device_info_idDropped(config, devicestr) ==
    LET device_id == misc_device_id(devicestr)
        byName == FirstIndex({k \in 1..Len(config.devices) : devicestr = config.devices[k].name})
        byID == FirstIndex({k \in 1..Len(config.devices) : device_id = config.devices[k].deviceID})
    IN IF device_id = None
       THEN IF byName # NoIndex
            THEN [id |-> At(config.devices, byName).deviceID,
                  index |-> byName,
                  folders |-> AssociatedFolders(config.folders,
                                                At(config.devices, byName).deviceID),
                  name |-> At(config.devices, byName).name]
            ELSE [id |-> None, index |-> NoIndex, folders |-> <<>>, name |-> None]
       ELSE IF byID # NoIndex
            THEN [id |-> device_id,
                  index |-> byID,
                  folders |-> AssociatedFolders(config.folders, device_id),
                  name |-> At(config.devices, byID).name]
            ELSE [id |-> None, index |-> NoIndex, folders |-> <<>>, name |-> None]

\* the folders list of a device_info that stops scanning a folder's devices
\* at the first match: each associated folder once
RECURSIVE AssociatedFoldersOnce(_, _)
AssociatedFoldersOnce(folders, device_id) ==
    IF folders = <<>> THEN <<>>
    ELSE LET folder == Head(folders)
             hit == \E k \in 1..Len(folder.devices) : folder.devices[k].deviceID = device_id
         IN (IF hit THEN <<folder.id>> ELSE <<>>)
            \o AssociatedFoldersOnce(Tail(folders), device_id)

\* device_info that lists every associated folder once
device_info_foldersOnce(config, devicestr) ==
    LET device_id == misc_device_id(devicestr)
        byName == FirstIndex({k \in 1..Len(config.devices) : devicestr = config.devices[k].name})
        byID == FirstIndex({k \in 1..Len(config.devices) : device_id = config.devices[k].deviceID})
    IN IF device_id = None
       THEN IF byName # NoIndex
            THEN [id |-> At(config.devices, byName).deviceID,
                  index |-> byName,
                  folders |-> AssociatedFoldersOnce(config.folders,
                                                    At(config.devices, byName).deviceID),
                  name |-> At(config.devices, byName).name]
            ELSE [id |-> None, index |-> NoIndex, folders |-> <<>>, name |-> None]
       ELSE IF byID # NoIndex
            THEN [id |-> device_id,
                  index |-> byID,
                  folders |-> AssociatedFoldersOnce(config.folders, device_id),
                  name |-> At(config.devices, byID).name]
            ELSE [id |-> device_id, index |-> NoIndex, folders |-> <<>>, name |-> None]

\* device_info(devicestr) on the document its self.system.config() returned
device_info(config, devicestr) ==
    LET device_id == misc_device_id(devicestr)
        byName == FirstIndex({k \in 1..Len(config.devices) : devicestr = config.devices[k].name})
        byID == FirstIndex({k \in 1..Len(config.devices) : device_id = config.devices[k].deviceID})
    IN IF device_id = None
       THEN IF byName # NoIndex
            THEN [id |-> At(config.devices, byName).deviceID,
                  index |-> byName,
                  folders |-> AssociatedFolders(config.folders,
                                                At(config.devices, byName).deviceID),
                  name |-> At(config.devices, byName).name]
            ELSE [id |-> None, index |-> NoIndex, folders |-> <<>>, name |-> None]
       ELSE IF byID # NoIndex
            THEN [id |-> device_id,
                  index |-> byID,
                  folders |-> AssociatedFolders(config.folders, device_id),
                  name |-> At(config.devices, byID).name]
            ELSE [id |-> device_id, index |-> NoIndex, folders |-> <<>>, name |-> None]

\* folder_info's "return None"
NoneInfo == [none |-> TRUE]

\* the dict folder_info builds for the folder at 0-based position index
FolderInfoAt(config, index) ==
    [none |-> FALSE,
     id |-> At(config.folders, index).id,
     index |-> index,
     label |-> At(config.folders, index).label,
     devices |-> At(config.folders, index).devices]

\* folder_info as a single scan that accepts an id or a label
folder_info_onePass(config, folderstr) ==
    LET either == FirstIndex({k \in 1..Len(config.folders) :
                                 \/ config.folders[k].id = folderstr
                                 \/ config.folders[k].label = folderstr})
    IN IF either # NoIndex THEN FolderInfoAt(config, either) ELSE NoneInfo

\* folder_info(folderstr) on the document its self.system.config() returned
folder_info(config, folderstr) ==
    LET byID == FirstIndex({k \in 1..Len(config.folders) : config.folders[k].id = folderstr})
        byLabel == FirstIndex({k \in 1..Len(config.folders) : config.folders[k].label = folderstr})
    IN IF byID # NoIndex THEN FolderInfoAt(config, byID)
       ELSE IF byLabel # NoIndex THEN FolderInfoAt(config, byLabel)
       ELSE NoneInfo

----------------------------------------------------------------------------
(* MutationOps.  Each returns what the call did: err is "ok" or the        *)
(* message of the exception raised, set tells whether set_config was       *)
(* called, and config is the document handed to set_config.                *)

Raise(message, config) == [err |-> message, set |-> FALSE, config |-> config]

SetConfig(config) == [err |-> "ok", set |-> TRUE, config |-> config]

\* add_device that stores its argument as typed instead of the canonical ID
add_device_rawID(config, infoConfig, device_id, name, address, dynamic, introducer) ==
    LET info == device_info(infoConfig, device_id)
        addresses == <<address>> \o (IF dynamic THEN <<"dynamic">> ELSE <<>>)
        device == [deviceID |-> device_id, name |-> name, addresses |-> addresses,
                   compression |-> "metadata", certName |-> "",
                   introducer |-> introducer]
    IN IF info.id = None THEN Raise("Bad device ID", config)
       ELSE IF info.index # NoIndex THEN Raise("Device already configured", config)
       ELSE SetConfig([config EXCEPT !.devices = Append(@, device)])

\* add_device whose dynamic flag has no effect when address is empty
add_device_dynamicNeedsAddress(config, infoConfig, device_id, name, address, dynamic, introducer) ==
    LET info == device_info(infoConfig, device_id)
        addresses == <<address>> \o
                     (IF dynamic /\ address # "" THEN <<"dynamic">> ELSE <<>>)
        device == [deviceID |-> info.id, name |-> name, addresses |-> addresses,
                   compression |-> "metadata", certName |-> "",
                   introducer |-> introducer]
    IN IF info.id = None THEN Raise("Bad device ID", config)
       ELSE IF info.index # NoIndex THEN Raise("Device already configured", config)
       ELSE SetConfig([config EXCEPT !.devices = Append(@, device)])

\* add_device: config is the fetch of its first line, infoConfig the fetch
\* inside its device_info call
add_device(config, infoConfig, device_id, name, address, dynamic, introducer) ==
    LET info == device_info(infoConfig, device_id)
        addresses == <<address>> \o (IF dynamic THEN <<"dynamic">> ELSE <<>>)
        device == [deviceID |-> info.id, name |-> name, addresses |-> addresses,
                   compression |-> "metadata", certName |-> "",
                   introducer |-> introducer]
    IN IF info.id = None THEN Raise("Bad device ID", config)
       ELSE IF info.index # NoIndex THEN Raise("Device already configured", config)
       ELSE SetConfig([config EXCEPT !.devices = Append(@, device)])

\* remove_device that tests info['id'] where the code tests info['index']:
\* "del config['devices'][None]" then raises TypeError
remove_device_checksId(config, infoConfig, devicestr) ==
    LET info == device_info(infoConfig, devicestr)
    IN IF info.id = None THEN Raise("Device not configured", config)
       ELSE IF info.index = NoIndex THEN Raise("TypeError", config)
       ELSE IF info.index >= Len(config.devices) THEN Raise("IndexError", config)
       ELSE SetConfig([config EXCEPT !.devices = DelAt(@, info.index)])

\* remove_device that drops every device carrying the resolved ID or sharing
\* the resolved name, instead of deleting one position
remove_device_allMatching(config, infoConfig, devicestr) ==
    LET info == device_info(infoConfig, devicestr)
    IN IF info.index = NoIndex THEN Raise("Device not configured", config)
       ELSE SetConfig([config EXCEPT
                          !.devices = SelectSeq(@, LAMBDA device :
                                                      /\ device.deviceID # info.id
                                                      /\ device.name # info.name)])

\* remove_device: config is the fetch of its first line, infoConfig the
\* fetch inside its device_info call
remove_device(config, infoConfig, devicestr) ==
    LET info == device_info(infoConfig, devicestr)
    IN IF info.index = NoIndex THEN Raise("Device not configured", config)
       ELSE IF info.index >= Len(config.devices) THEN Raise("IndexError", config)
       ELSE SetConfig([config EXCEPT !.devices = DelAt(@, info.index)])

\* share_folder without the scan for a device already in the folder
share_folder_noDupCheck(folderConfig, deviceConfig, config, folderstr, devicestr) ==
    LET info == folder_info(folderConfig, folderstr)
        deviceinfo == device_info(deviceConfig, devicestr)
        devices == Append(info.devices, [deviceID |-> deviceinfo.id])
    IN IF info.none THEN Raise("not the ID or label of a configured folder", config)
       ELSE IF deviceinfo.index = NoIndex
       THEN Raise("not a configured device name or ID", config)
       ELSE IF info.index >= Len(config.folders) THEN Raise("IndexError", config)
       ELSE SetConfig([config EXCEPT
                          !.folders = SetAt(@, info.index,
                                            [At(@, info.index) EXCEPT !.devices = devices])])

\* share_folder whose scan for the device looks at the folder's first
\* reference only
share_folder_checksFirst(folderConfig, deviceConfig, config, folderstr, devicestr) ==
    LET info == folder_info(folderConfig, folderstr)
        deviceinfo == device_info(deviceConfig, devicestr)
        devices == Append(info.devices, [deviceID |-> deviceinfo.id])
    IN IF info.none THEN Raise("not the ID or label of a configured folder", config)
       ELSE IF deviceinfo.index = NoIndex
       THEN Raise("not a configured device name or ID", config)
       ELSE IF info.devices # <<>> /\ info.devices[1].deviceID = deviceinfo.id
       THEN Raise("already associated", config)
       ELSE IF info.index >= Len(config.folders) THEN Raise("IndexError", config)
       ELSE SetConfig([config EXCEPT
                          !.folders = SetAt(@, info.index,
                                            [At(@, info.index) EXCEPT !.devices = devices])])

\* share_folder: folderConfig and deviceConfig are the fetches inside its
\* folder_info and device_info calls, config the fetch that follows them
share_folder(folderConfig, deviceConfig, config, folderstr, devicestr) ==
    LET info == folder_info(folderConfig, folderstr)
        deviceinfo == device_info(deviceConfig, devicestr)
        devices == Append(info.devices, [deviceID |-> deviceinfo.id])
    IN IF info.none THEN Raise("not the ID or label of a configured folder", config)
       ELSE IF deviceinfo.index = NoIndex
       THEN Raise("not a configured device name or ID", config)
       ELSE IF \E k \in 1..Len(info.devices) : info.devices[k].deviceID = deviceinfo.id
       THEN Raise("already associated", config)
       ELSE IF info.index >= Len(config.folders) THEN Raise("IndexError", config)
       ELSE SetConfig([config EXCEPT
                          !.folders = SetAt(@, info.index,
                                            [At(@, info.index) EXCEPT !.devices = devices])])

\* unshare_folder without the test that the device is configured: a
\* well-formed ID that no device carries goes on to the reference scan
unshare_folder_noDeviceCheck(folderConfig, deviceConfig, config, folderstr, devicestr) ==
    LET info == folder_info(folderConfig, folderstr)
        deviceinfo == device_info(deviceConfig, devicestr)
        index == FirstIndex({k \in 1..Len(info.devices) : info.devices[k].deviceID = deviceinfo.id})
        devices == DelAt(info.devices, index)
    IN IF info.none THEN Raise("not the ID or label of a configured folder", config)
       ELSE IF index = NoIndex THEN Raise("not associated", config)
       ELSE IF info.index >= Len(config.folders) THEN Raise("IndexError", config)
       ELSE SetConfig([config EXCEPT
                          !.folders = SetAt(@, info.index,
                                            [At(@, info.index) EXCEPT !.devices = devices])])

\* unshare_folder: the same three fetches as share_folder
unshare_folder(folderConfig, deviceConfig, config, folderstr, devicestr) ==
    LET info == folder_info(folderConfig, folderstr)
        deviceinfo == device_info(deviceConfig, devicestr)
        index == FirstIndex({k \in 1..Len(info.devices) : info.devices[k].deviceID = deviceinfo.id})
        devices == DelAt(info.devices, index)
    IN IF info.none THEN Raise("not the ID or label of a configured folder", config)
       ELSE IF deviceinfo.index = NoIndex
       THEN Raise("not a configured device name or ID", config)
       ELSE IF index = NoIndex THEN Raise("not associated", config)
       ELSE IF info.index >= Len(config.folders) THEN Raise("IndexError", config)
       ELSE SetConfig([config EXCEPT
                          !.folders = SetAt(@, info.index,
                                            [At(@, info.index) EXCEPT !.devices = devices])])

\* pathlib.Path(path).resolve(): the absolute form of a path that exists,
\* None for FileNotFoundError
Paths == {"/p1", "p2", "gone"}
pathlib_resolve(path) ==
    IF path = "gone" THEN None
    ELSE IF path = "p2" THEN "/cwd/p2"
    ELSE path

\* add_folder whose duplicate test also rejects a folderid or label that
\* some folder already uses as its label
add_folder_checksLabel(config, path, folderid, label, foldertype, rescan) ==
    LET resolved == pathlib_resolve(path)
        folder == [id |-> folderid, label |-> label, path |-> resolved,
                   type |-> foldertype, rescanIntervalS |-> rescan, fsync |-> TRUE,
                   autoNormalize |-> TRUE, maxConflicts |-> 10, pullerSleepS |-> 0,
                   minDiskFreePct |-> 1]
    IN IF \E k \in 1..Len(config.folders) :
              \/ config.folders[k].id = folderid
              \/ config.folders[k].label \in {folderid, label}
       THEN Raise("already in use", config)
       ELSE IF resolved = None THEN Raise("problem with the path", config)
       ELSE SetConfig([config EXCEPT !.folders = Append(@, folder)])

\* add_folder that drops its foldertype argument and always writes the
\* default type
add_folder_defaultType(config, path, folderid, label, foldertype, rescan) ==
    LET resolved == pathlib_resolve(path)
        folder == [id |-> folderid, label |-> label, path |-> resolved,
                   type |-> "readwrite", rescanIntervalS |-> rescan, fsync |-> TRUE,
                   autoNormalize |-> TRUE, maxConflicts |-> 10, pullerSleepS |-> 0,
                   minDiskFreePct |-> 1]
    IN IF \E k \in 1..Len(config.folders) : config.folders[k].id = folderid
       THEN Raise("already in use", config)
       ELSE IF resolved = None THEN Raise("problem with the path", config)
       ELSE SetConfig([config EXCEPT !.folders = Append(@, folder)])

\* add_folder: one fetch; the folder it builds has no devices key.  rescan
\* is an integer already, so int(rescan) leaves it as it is
add_folder(config, path, folderid, label, foldertype, rescan) ==
    LET resolved == pathlib_resolve(path)
        folder == [id |-> folderid, label |-> label, path |-> resolved,
                   type |-> foldertype, rescanIntervalS |-> rescan, fsync |-> TRUE,
                   autoNormalize |-> TRUE, maxConflicts |-> 10, pullerSleepS |-> 0,
                   minDiskFreePct |-> 1]
    IN IF \E k \in 1..Len(config.folders) : config.folders[k].id = folderid
       THEN Raise("already in use", config)
       ELSE IF resolved = None THEN Raise("problem with the path", config)
       ELSE SetConfig([config EXCEPT !.folders = Append(@, folder)])

\* remove_folder: infoConfig is the fetch inside its folder_info call, config
\* the fetch that follows it
remove_folder(infoConfig, config, folderstr) ==
    LET info == folder_info(infoConfig, folderstr)
    IN IF info.none THEN Raise("not the ID or label of a configured folder", config)
       ELSE IF info.index >= Len(config.folders) THEN Raise("IndexError", config)
       ELSE SetConfig([config EXCEPT !.folders = DelAt(@, info.index)])

\* dict[key] = value: the key is added when the dict has none
SetKey(dict, key, value) ==
    [k \in DOMAIN dict \cup {key} |-> IF k = key THEN value ELSE dict[k]]

\* edit_device that writes a fresh entry holding the device's ID, its name
\* and the edited property instead of updating the fetched entry
edit_device_freshEntry(config, infoConfig, devicestr, prop, value) ==
    LET info == device_info(infoConfig, devicestr)
        device == SetKey([deviceID |-> info.id, name |-> info.name], prop, value)
    IN IF info.index = NoIndex THEN Raise("Device not configured", config)
       ELSE IF info.index >= Len(config.devices) THEN Raise("IndexError", config)
       ELSE SetConfig([config EXCEPT !.devices = SetAt(@, info.index, device)])

\* edit_device: config is the fetch of its first line, infoConfig the fetch
\* inside its device_info call
edit_device(config, infoConfig, devicestr, prop, value) ==
    LET info == device_info(infoConfig, devicestr)
    IN IF info.index = NoIndex THEN Raise("Device not configured", config)
       ELSE IF info.index >= Len(config.devices) THEN Raise("IndexError", config)
       ELSE SetConfig([config EXCEPT
                          !.devices = SetAt(@, info.index,
                                            SetKey(At(@, info.index), prop, value))])

device_change_name(config, infoConfig, devicestr, name) ==
    edit_device(config, infoConfig, devicestr, "name", name)

\* device_add_address: infoConfig is the fetch inside its device_info call,
\* addrConfig the fetch the address list is read from, config and
\* editInfoConfig the two fetches of the edit_device call it ends with
device_add_address(infoConfig, addrConfig, config, editInfoConfig, devicestr, address) ==
    LET info == device_info(infoConfig, devicestr)
    IN IF info.index = NoIndex THEN Raise("Device not configured", config)
       ELSE IF info.index >= Len(addrConfig.devices) THEN Raise("IndexError", config)
       ELSE edit_device(config, editInfoConfig, devicestr, "addresses",
                        Append(At(addrConfig.devices, info.index).addresses, address))

\* device_remove_address: the same four fetches; list.remove deletes the
\* first occurrence, and its ValueError for an absent address is swallowed
device_remove_address(infoConfig, addrConfig, config, editInfoConfig, devicestr, address) ==
    LET info == device_info(infoConfig, devicestr)
        addresses == At(addrConfig.devices, info.index).addresses
        index == FirstIndex({k \in 1..Len(addresses) : addresses[k] = address})
    IN IF info.index = NoIndex THEN Raise("Device not configured", config)
       ELSE IF info.index >= Len(addrConfig.devices) THEN Raise("IndexError", config)
       ELSE IF index = NoIndex THEN [err |-> "ok", set |-> FALSE, config |-> config]
       ELSE edit_device(config, editInfoConfig, devicestr, "addresses",
                        DelAt(addresses, index))

\* folder_edit that always writes into the first folder of the document
folder_edit_firstFolder(config, infoConfig, folderstr, prop, value) ==
    LET info == folder_info(infoConfig, folderstr)
    IN IF info.none THEN Raise("TypeError", config)
       ELSE IF info.index >= Len(config.folders) THEN Raise("IndexError", config)
       ELSE SetConfig([config EXCEPT
                          !.folders = SetAt(@, 0, SetKey(At(@, 0), prop, value))])

\* folder_edit: config is the fetch of its first line, infoConfig the fetch
\* inside its folder_info call.  For an unknown folder folder_info returns
\* None and info['index'] raises TypeError
folder_edit(config, infoConfig, folderstr, prop, value) ==
    LET info == folder_info(infoConfig, folderstr)
    IN IF info.none THEN Raise("TypeError", config)
       ELSE IF info.index >= Len(config.folders) THEN Raise("IndexError", config)
       ELSE SetConfig([config EXCEPT
                          !.folders = SetAt(@, info.index,
                                            SetKey(At(@, info.index), prop, value))])

\* the setters receive integers, so their int() calls leave the value as it is
folder_set_label(config, infoConfig, folderstr, label) ==
    folder_edit(config, infoConfig, folderstr, "label", label)

folder_set_rescan(config, infoConfig, folderstr, rescan) ==
    folder_edit(config, infoConfig, folderstr, "rescanIntervalS", rescan)

folder_set_minfree(config, infoConfig, folderstr, minfree) ==
    folder_edit(config, infoConfig, folderstr, "minDiskFreePct", minfree)

folder_set_type(config, infoConfig, folderstr, folder_type) ==
    folder_edit(config, infoConfig, folderstr, "type", folder_type)

folder_set_order(config, infoConfig, folderstr, order) ==
    folder_edit(config, infoConfig, folderstr, "order", order)

folder_set_ignore_perms(config, infoConfig, folderstr, ignore) ==
    folder_edit(config, infoConfig, folderstr, "ignorePerms", ignore)

\* str() of an integer: its decimal digits as a sequence of characters,
\* after a minus sign when it is negative
DigitChars == <<"0", "1", "2", "3", "4", "5", "6", "7", "8", "9">>
RECURSIVE str(_)
str(n) ==
    IF n < 0 THEN <<"-">> \o str(-n)
    ELSE IF n < 10 THEN <<DigitChars[n + 1]>>
    ELSE Append(str(n \div 10), DigitChars[(n % 10) + 1])

\* an empty dict
EmptyDict == <<>>

folder_setup_versioning_trashcan(config, infoConfig, folderstr, cleanoutdays) ==
    folder_edit(config, infoConfig, folderstr, "versioning",
                [params |-> [cleanoutDays |-> str(cleanoutdays)], type |-> "trashcan"])

folder_setup_versioning_simple(config, infoConfig, folderstr, keep) ==
    folder_edit(config, infoConfig, folderstr, "versioning",
                [params |-> [keep |-> str(keep)], type |-> "simple"])

\* folder_setup_versioning_staggered that converts the days to minutes
folder_setup_versioning_staggered_minutes(config, infoConfig, folderstr, maxage, path) ==
    folder_edit(config, infoConfig, folderstr, "versioning",
                [params |-> [maxAge |-> str(maxage * 24 * 60),
                             cleanInterval |-> "3600", versionsPath |-> path],
                 type |-> "staggered"])

folder_setup_versioning_staggered(config, infoConfig, folderstr, maxage, path) ==
    folder_edit(config, infoConfig, folderstr, "versioning",
                [params |-> [maxAge |-> str(maxage * 24 * 60^2),
                             cleanInterval |-> "3600", versionsPath |-> path],
                 type |-> "staggered"])

folder_setup_versioning_external(config, infoConfig, folderstr, command) ==
    folder_edit(config, infoConfig, folderstr, "versioning",
                [params |-> [command |-> command], type |-> "external"])

folder_setup_versioning_none(config, infoConfig, folderstr) ==
    folder_edit(config, infoConfig, folderstr, "versioning",
                [params |-> EmptyDict, type |-> ""])

----------------------------------------------------------------------------
(* Documents the daemon may hold before the tool runs.                     *)

\* a device entry as the daemon serves it
Device(deviceID, name) ==
    [deviceID |-> deviceID, name |-> name, addresses |-> <<"dynamic">>,
     compression |-> "metadata", certName |-> "", introducer |-> FALSE]

\* what the daemon serves for the keys a submitted folder leaves out
ServedDefaults == [devices |-> <<>>, minDiskFreePct |-> 0]

\* a submitted folder as the daemon serves it back
Fill(folder) ==
    [key \in DOMAIN folder \cup DOMAIN ServedDefaults |->
        IF key \in DOMAIN folder THEN folder[key] ELSE ServedDefaults[key]]

\* a submitted document as the daemon serves it back
Served(config) ==
    [config EXCEPT !.folders = [k \in 1..Len(@) |-> Fill(@[k])]]

\* a daemon that takes the devices of a submitted document and keeps the
\* folders it holds
set_config_keepFolders(held, config) == [Served(config) EXCEPT !.folders = held.folders]

\* set_config: the daemon drops the document it holds for the submitted one
set_config(held, config) == Served(config)

\* a folder entry as the daemon serves it
Folder(id, label, devices) ==
    Fill([id |-> id, label |-> label, path |-> "/p1", type |-> "readwrite",
          rescanIntervalS |-> 60, devices |-> devices])

\* every list of at most n elements of S
ListsUpTo(S, n) == UNION {[1..k -> S] : k \in 0..n}

Devices == {Device(deviceID, name) : deviceID \in CanonIDs, name \in DeviceNames}

\* device references a served folder may hold
DeviceRefs == {<<>>, <<[deviceID |-> "AAA"]>>}

Folders == {Folder(id, label, devices) :
                id \in FolderIDs, label \in FolderLabels, devices \in DeviceRefs}

\* every document within the bounds, duplicate IDs included
Documents == [devices : ListsUpTo(Devices, MaxDevices),
              folders : ListsUpTo(Folders, MaxFolders)]

\* no two elements of the list keys are equal
Distinct(keys) ==
    \A i, j \in 1..Len(keys) : keys[i] = keys[j] => i = j

\* the documents that keep the data model's invariants: device IDs and
\* folder ids are unique
WellFormed(config) ==
    /\ Distinct([k \in 1..Len(config.devices) |-> config.devices[k].deviceID])
    /\ Distinct([k \in 1..Len(config.folders) |-> config.folders[k].id])

----------------------------------------------------------------------------
(* The single-writer specification: one command at a time, each call's     *)
(* fetches all return the daemon's current document.  last holds what the  *)
(* running command did; the process exits before the next one starts.      *)

NoCall == [op |-> "none"]

Init ==
    /\ daemon \in {config \in Documents : WellFormed(config)}
    /\ last = NoCall

\* what a call leaves in the daemon: the document it handed to set_config,
\* as the daemon serves it back
Submit(result) == IF result.set THEN set_config(daemon, result.config) ELSE daemon

WithinBounds(config) ==
    /\ Len(config.devices) <= MaxDevices
    /\ Len(config.folders) <= MaxFolders

AddDevice ==
    \E device_id \in DeviceStrs, args \in AddDeviceArgs :
        LET result == add_device(daemon, daemon, device_id, args.name, args.address,
                                 args.dynamic, args.introducer)
        IN /\ last = NoCall
           /\ WithinBounds(Submit(result))
           /\ daemon' = Submit(result)
           /\ last' = [op |-> "add_device", device |-> device_id, args |-> args,
                       err |-> result.err, set |-> result.set]

RemoveDevice ==
    \E devicestr \in DeviceStrs :
        LET result == remove_device(daemon, daemon, devicestr)
        IN /\ last = NoCall
           /\ daemon' = Submit(result)
           /\ last' = [op |-> "remove_device", device |-> devicestr,
                       err |-> result.err, set |-> result.set]

ShareFolder ==
    \E folderstr \in FolderStrs, devicestr \in DeviceStrs :
        LET result == share_folder(daemon, daemon, daemon, folderstr, devicestr)
        IN /\ last = NoCall
           /\ daemon' = Submit(result)
           /\ last' = [op |-> "share_folder", folder |-> folderstr,
                       device |-> devicestr,
                       err |-> result.err, set |-> result.set]

UnshareFolder ==
    \E folderstr \in FolderStrs, devicestr \in DeviceStrs :
        LET result == unshare_folder(daemon, daemon, daemon, folderstr, devicestr)
        IN /\ last = NoCall
           /\ daemon' = Submit(result)
           /\ last' = [op |-> "unshare_folder", folder |-> folderstr,
                       device |-> devicestr,
                       err |-> result.err, set |-> result.set]

\* the command's process ends; the daemon keeps its document
Exit ==
    /\ last # NoCall
    /\ last' = NoCall
    /\ UNCHANGED daemon

Next == AddDevice \/ RemoveDevice \/ ShareFolder \/ UnshareFolder \/ Exit

Spec == Init /\ [][Next]_vars

----------------------------------------------------------------------------
(* The resolver specification: the resolvers applied to every document     *)
(* within the bounds.                                                      *)

\* device references as any document may hold them: to an ID that a
\* device may or may not carry, in any number
ResolveRefs ==
    {<<>>, <<[deviceID |-> "BBB"], [deviceID |-> "AAA"]>>,
     <<[deviceID |-> "AAA"], [deviceID |-> "AAA"]>>}

ResolveDocuments ==
    [devices : ListsUpTo(Devices, MaxDevices),
     folders : ListsUpTo({Folder(id, label, devices) :
                              id \in FolderIDs, label \in FolderLabels,
                              devices \in ResolveRefs}, MaxFolders)]

InitResolve ==
    /\ daemon \in ResolveDocuments
    /\ last = NoCall

DeviceInfo ==
    \E devicestr \in DeviceStrs :
        /\ last = NoCall
        /\ last' = [op |-> "device_info", device |-> devicestr,
                    info |-> device_info(daemon, devicestr)]
        /\ UNCHANGED daemon

FolderInfo ==
    \E folderstr \in FolderStrs :
        /\ last = NoCall
        /\ last' = [op |-> "folder_info", folder |-> folderstr,
                    info |-> folder_info(daemon, folderstr)]
        /\ UNCHANGED daemon

NextResolve == DeviceInfo \/ FolderInfo

SpecResolve == InitResolve /\ [][NextResolve]_vars

----------------------------------------------------------------------------
(* The folder specification: one folder command applied to the well-formed *)
(* documents within the bounds.                                            *)

FolderTypes == {"readwrite", "readonly"}
Rescans == {40, 60}

AddFolder ==
    \E path \in Paths, folderid \in FolderIDs, label \in FolderStrs,
       foldertype \in FolderTypes, rescan \in Rescans :
        LET result == add_folder(daemon, path, folderid, label, foldertype, rescan)
        IN /\ last = NoCall
           /\ WithinBounds(Submit(result))
           /\ daemon' = Submit(result)
           /\ last' = [op |-> "add_folder", path |-> path, folder |-> folderid,
                       label |-> label, type |-> foldertype, rescan |-> rescan,
                       err |-> result.err, set |-> result.set]

RemoveFolder ==
    \E folderstr \in FolderStrs :
        LET result == remove_folder(daemon, daemon, folderstr)
        IN /\ last = NoCall
           /\ daemon' = Submit(result)
           /\ last' = [op |-> "remove_folder", folder |-> folderstr,
                       err |-> result.err, set |-> result.set]

\* the property edits tried through folder_edit itself
FolderEdits ==
    <<[prop |-> "label", value |-> "lab"],
      [prop |-> "rescanIntervalS", value |-> 40],
      [prop |-> "type", value |-> "readonly"],
      [prop |-> "id", value |-> "f2"]>>

Minfrees == {0, 5}
Orders == {"random", "alphabetic"}
CleanoutDays == {0, 7}
Keeps == {5, 10}
MaxAgeDays == 365
VersionsPaths == {"", "/v"}
Commands == {"cmd"}

FolderEdit ==
    \E folderstr \in FolderStrs, e \in 1..Len(FolderEdits) :
        LET args == FolderEdits[e]
            result == folder_edit(daemon, daemon, folderstr, args.prop, args.value)
        IN /\ last = NoCall
           /\ daemon' = Submit(result)
           /\ last' = [op |-> "folder_edit", folder |-> folderstr, args |-> args,
                       err |-> result.err, set |-> result.set]

FolderSetLabel ==
    \E folderstr \in FolderStrs, label \in FolderStrs :
        LET result == folder_set_label(daemon, daemon, folderstr, label)
        IN /\ last = NoCall
           /\ daemon' = Submit(result)
           /\ last' = [op |-> "folder_set_label", folder |-> folderstr,
                       args |-> [label |-> label],
                       err |-> result.err, set |-> result.set]

FolderSetRescan ==
    \E folderstr \in FolderStrs, rescan \in Rescans :
        LET result == folder_set_rescan(daemon, daemon, folderstr, rescan)
        IN /\ last = NoCall
           /\ daemon' = Submit(result)
           /\ last' = [op |-> "folder_set_rescan", folder |-> folderstr,
                       args |-> [rescan |-> rescan],
                       err |-> result.err, set |-> result.set]

FolderSetMinfree ==
    \E folderstr \in FolderStrs, minfree \in Minfrees :
        LET result == folder_set_minfree(daemon, daemon, folderstr, minfree)
        IN /\ last = NoCall
           /\ daemon' = Submit(result)
           /\ last' = [op |-> "folder_set_minfree", folder |-> folderstr,
                       args |-> [minfree |-> minfree],
                       err |-> result.err, set |-> result.set]

FolderSetType ==
    \E folderstr \in FolderStrs, folder_type \in FolderTypes :
        LET result == folder_set_type(daemon, daemon, folderstr, folder_type)
        IN /\ last = NoCall
           /\ daemon' = Submit(result)
           /\ last' = [op |-> "folder_set_type", folder |-> folderstr,
                       args |-> [folder_type |-> folder_type],
                       err |-> result.err, set |-> result.set]

FolderSetOrder ==
    \E folderstr \in FolderStrs, order \in Orders :
        LET result == folder_set_order(daemon, daemon, folderstr, order)
        IN /\ last = NoCall
           /\ daemon' = Submit(result)
           /\ last' = [op |-> "folder_set_order", folder |-> folderstr,
                       args |-> [order |-> order],
                       err |-> result.err, set |-> result.set]

FolderSetIgnorePerms ==
    \E folderstr \in FolderStrs, ignore \in BOOLEAN :
        LET result == folder_set_ignore_perms(daemon, daemon, folderstr, ignore)
        IN /\ last = NoCall
           /\ daemon' = Submit(result)
           /\ last' = [op |-> "folder_set_ignore_perms", folder |-> folderstr,
                       args |-> [ignore |-> ignore],
                       err |-> result.err, set |-> result.set]

FolderSetupVersioningTrashcan ==
    \E folderstr \in FolderStrs, cleanoutdays \in CleanoutDays :
        LET result == folder_setup_versioning_trashcan(daemon, daemon, folderstr,
                                                       cleanoutdays)
        IN /\ last = NoCall
           /\ daemon' = Submit(result)
           /\ last' = [op |-> "folder_setup_versioning_trashcan",
                       folder |-> folderstr,
                       args |-> [cleanoutdays |-> cleanoutdays],
                       err |-> result.err, set |-> result.set]

FolderSetupVersioningSimple ==
    \E folderstr \in FolderStrs, keep \in Keeps :
        LET result == folder_setup_versioning_simple(daemon, daemon, folderstr, keep)
        IN /\ last = NoCall
           /\ daemon' = Submit(result)
           /\ last' = [op |-> "folder_setup_versioning_simple",
                       folder |-> folderstr, args |-> [keep |-> keep],
                       err |-> result.err, set |-> result.set]

FolderSetupVersioningStaggered ==
    \E folderstr \in FolderStrs, maxage \in 0..MaxAgeDays, path \in VersionsPaths :
        LET result == folder_setup_versioning_staggered(daemon, daemon, folderstr,
                                                        maxage, path)
        IN /\ last = NoCall
           /\ daemon' = Submit(result)
           /\ last' = [op |-> "folder_setup_versioning_staggered",
                       folder |-> folderstr,
                       args |-> [maxage |-> maxage, path |-> path],
                       err |-> result.err, set |-> result.set]

FolderSetupVersioningExternal ==
    \E folderstr \in FolderStrs, command \in Commands :
        LET result == folder_setup_versioning_external(daemon, daemon, folderstr,
                                                       command)
        IN /\ last = NoCall
           /\ daemon' = Submit(result)
           /\ last' = [op |-> "folder_setup_versioning_external",
                       folder |-> folderstr, args |-> [command |-> command],
                       err |-> result.err, set |-> result.set]

FolderSetupVersioningNone ==
    \E folderstr \in FolderStrs :
        LET result == folder_setup_versioning_none(daemon, daemon, folderstr)
        IN /\ last = NoCall
           /\ daemon' = Submit(result)
           /\ last' = [op |-> "folder_setup_versioning_none",
                       folder |-> folderstr, args |-> EmptyDict,
                       err |-> result.err, set |-> result.set]

\* the documents the folder commands start from: the well-formed ones over
\* three device lists
InitFolder ==
    /\ daemon \in {config \in [devices : {<<>>, <<Device("AAA", "bob")>>,
                                          <<Device("AAA", "bob"), Device("BBB", "aaa")>>},
                               folders : ListsUpTo(Folders, MaxFolders)] :
                       WellFormed(config)}
    /\ last = NoCall

NextFolder ==
    \/ AddFolder
    \/ RemoveFolder
    \/ FolderEdit
    \/ FolderSetLabel
    \/ FolderSetRescan
    \/ FolderSetMinfree
    \/ FolderSetType
    \/ FolderSetOrder
    \/ FolderSetIgnorePerms
    \/ FolderSetupVersioningTrashcan
    \/ FolderSetupVersioningSimple
    \/ FolderSetupVersioningStaggered
    \/ FolderSetupVersioningExternal
    \/ FolderSetupVersioningNone

SpecFolder == InitFolder /\ [][NextFolder]_vars

----------------------------------------------------------------------------
(* The device specification: one device edit applied to every well-formed  *)
(* document within the bounds, the devices' address lists varying.         *)

Addresses == {"dynamic", "tcp://a1"}

\* the address lists add_device leaves: dynamic alone, or a host and dynamic
AddressLists == {<<"dynamic">>, <<"tcp://a1", "dynamic">>}

AddressedDevices ==
    {[Device(deviceID, name) EXCEPT !.addresses = addresses] :
        deviceID \in CanonIDs, name \in DeviceNames, addresses \in AddressLists}

InitDevice ==
    /\ daemon \in {config \in [devices : ListsUpTo(AddressedDevices, MaxDevices),
                               folders : ListsUpTo(Folders, MaxFolders)] :
                       WellFormed(config)}
    /\ last = NoCall

\* the property edits tried, one value of each kind
DeviceEdits ==
    <<[prop |-> "name", value |-> "bob"],
      [prop |-> "name", value |-> "carol"],
      [prop |-> "introducer", value |-> TRUE],
      [prop |-> "introducer", value |-> FALSE],
      [prop |-> "compression", value |-> "always"],
      [prop |-> "addresses", value |-> <<"tcp://a2">>]>>

EditDevice ==
    \E devicestr \in DeviceStrs, e \in 1..Len(DeviceEdits) :
        LET edit == DeviceEdits[e]
            result == edit_device(daemon, daemon, devicestr, edit.prop, edit.value)
        IN /\ last = NoCall
           /\ daemon' = Submit(result)
           /\ last' = [op |-> "edit_device", device |-> devicestr,
                       prop |-> edit.prop, value |-> edit.value,
                       err |-> result.err, set |-> result.set]

DeviceAddAddress ==
    \E devicestr \in DeviceStrs, address \in Addresses :
        LET result == device_add_address(daemon, daemon, daemon, daemon,
                                         devicestr, address)
        IN /\ last = NoCall
           /\ daemon' = Submit(result)
           /\ last' = [op |-> "device_add_address", device |-> devicestr,
                       address |-> address,
                       err |-> result.err, set |-> result.set]

DeviceRemoveAddress ==
    \E devicestr \in DeviceStrs, address \in Addresses :
        LET result == device_remove_address(daemon, daemon, daemon, daemon,
                                            devicestr, address)
        IN /\ last = NoCall
           /\ daemon' = Submit(result)
           /\ last' = [op |-> "device_remove_address", device |-> devicestr,
                       address |-> address,
                       err |-> result.err, set |-> result.set]

NextDevice == EditDevice \/ DeviceAddAddress \/ DeviceRemoveAddress

SpecDevice == InitDevice /\ [][NextDevice]_vars

----------------------------------------------------------------------------
(* The race specification: two commands run against the same daemon, each  *)
(* a process that performs its fetches one by one and then replaces the    *)
(* document or fails.  last holds both processes: the call, the documents  *)
(* fetched so far, whether a fetch came after a replacement (late), the    *)
(* outcome, and which replacement was its own (turn).  A call that raises  *)
(* before its last fetch is modelled as making the remaining fetches       *)
(* first, which changes nothing in the daemon.                             *)

Invocations == {"A", "B"}

RaceCalls ==
    <<[op |-> "edit_device", device |-> "AAA", prop |-> "introducer", value |-> TRUE],
      [op |-> "edit_device", device |-> "bob", prop |-> "name", value |-> "carol"],
      [op |-> "remove_device", device |-> "BBB"],
      [op |-> "share_folder", folder |-> "f1", device |-> "AAA"],
      [op |-> "folder_edit", folder |-> "f1", prop |-> "label", value |-> "lab"],
      [op |-> "device_add_address", device |-> "AAA", address |-> "tcp://a1"],
      [op |-> "remove_device", device |-> "AAA"],
      [op |-> "remove_folder", folder |-> "f1"]>>

\* the number of self.system.config() calls the call makes
NumFetches(call) ==
    CASE call.op = "edit_device" -> 2
      [] call.op = "remove_device" -> 2
      [] call.op = "share_folder" -> 3
      [] call.op = "folder_edit" -> 2
      [] call.op = "device_add_address" -> 4
      [] call.op = "remove_folder" -> 2

\* the call's outcome on the documents it fetched, in the order of the fetches
Run(call, snaps) ==
    CASE call.op = "edit_device" ->
             edit_device(snaps[1], snaps[2], call.device, call.prop, call.value)
      [] call.op = "remove_device" ->
             remove_device(snaps[1], snaps[2], call.device)
      [] call.op = "share_folder" ->
             share_folder(snaps[1], snaps[2], snaps[3], call.folder, call.device)
      [] call.op = "folder_edit" ->
             folder_edit(snaps[1], snaps[2], call.folder, call.prop, call.value)
      [] call.op = "device_add_address" ->
             device_add_address(snaps[1], snaps[2], snaps[3], snaps[4],
                                call.device, call.address)
      [] call.op = "remove_folder" ->
             remove_folder(snaps[1], snaps[2], call.folder)

Started(call) ==
    [call |-> call, snaps |-> <<>>, late |-> FALSE, pc |-> "run",
     err |-> "none", set |-> FALSE, turn |-> 0]

\* two devices and one or two folders that no device shares yet
RaceDocuments ==
    {config \in Documents :
        /\ WellFormed(config)
        /\ Len(config.devices) = 2
        /\ Len(config.folders) \in 1..2
        /\ \A f \in 1..Len(config.folders) : config.folders[f].devices = <<>>}

InitRace ==
    /\ daemon \in RaceDocuments
    /\ \E a, b \in 1..Len(RaceCalls) :
           last = [op |-> "race", doc0 |-> daemon, writes |-> 0,
                   A |-> Started(RaceCalls[a]), B |-> Started(RaceCalls[b])]

Fetch(p) ==
    /\ last[p].pc = "run"
    /\ Len(last[p].snaps) < NumFetches(last[p].call)
    /\ last' = [last EXCEPT ![p].snaps = Append(@, daemon),
                            ![p].late = @ \/ last.writes > 0]
    /\ UNCHANGED daemon

Replace(p) ==
    LET result == Run(last[p].call, last[p].snaps)
    IN /\ last[p].pc = "run"
       /\ Len(last[p].snaps) = NumFetches(last[p].call)
       /\ daemon' = Submit(result)
       /\ last' = [last EXCEPT ![p].pc = "done",
                               ![p].err = result.err,
                               ![p].set = result.set,
                               ![p].turn = IF result.set THEN last.writes + 1 ELSE 0,
                               !.writes = IF result.set THEN @ + 1 ELSE @]

NextRace == (\E p \in Invocations : Fetch(p)) \/ (\E p \in Invocations : Replace(p))

SpecRace == InitRace /\ [][NextRace]_vars

----------------------------------------------------------------------------
(* The edit-command specification: main() running one "device edit" or     *)
(* "folder edit" command, one if statement per step.  An optional argument *)
(* is <<>> when the command line leaves it out (argparse's None) and       *)
(* <<value>> when it gives it.  last holds the arguments, the position pc  *)
(* of the next if statement, the steps that called the daemon (ran) and    *)
(* the outcome; an exception ends the command.                             *)

\* Python's truth value of an optional string or integer argument
TruthyStr(arg) == arg # <<>> /\ arg[1] # ""
TruthyInt(arg) == arg # <<>> /\ arg[1] # 0

DeviceEditSteps == 5
FolderEditSteps == 7

\* the test of the k-th if statement of "device edit"
DeviceEditTaken(k, args) ==
    CASE k = 1 -> TruthyStr(args.name)
      [] k = 2 -> args.introducer
      [] k = 3 -> args.introducer_off
      [] k = 4 -> TruthyStr(args.add_address)
      [] k = 5 -> TruthyStr(args.remove_address)

\* the call in the body of the k-th if statement of "device edit"
DeviceEditCall(k, args, config) ==
    CASE k = 1 -> device_change_name(config, config, args.device, args.name[1])
      [] k = 2 -> edit_device(config, config, args.device, "introducer", TRUE)
      [] k = 3 -> edit_device(config, config, args.device, "introducer", FALSE)
      [] k = 4 -> device_add_address(config, config, config, config,
                                     args.device, args.add_address[1])
      [] k = 5 -> device_remove_address(config, config, config, config,
                                        args.device, args.remove_address[1])

\* the test of the k-th if statement of "folder edit"
FolderEditTaken(k, args) ==
    CASE k = 1 -> TruthyStr(args.label)
      [] k = 2 -> TruthyInt(args.rescan)
      [] k = 3 -> TruthyInt(args.minfree)
      [] k = 4 -> TruthyStr(args.folder_type)
      [] k = 5 -> TruthyStr(args.order)
      [] k = 6 -> args.ignore_permissions
      [] k = 7 -> args.sync_permissions

\* the call in the body of the k-th if statement of "folder edit"
FolderEditCall(k, args, config) ==
    CASE k = 1 -> folder_set_label(config, config, args.folder, args.label[1])
      [] k = 2 -> folder_set_rescan(config, config, args.folder, args.rescan[1])
      [] k = 3 -> folder_set_minfree(config, config, args.folder, args.minfree[1])
      [] k = 4 -> folder_set_type(config, config, args.folder, args.folder_type[1])
      [] k = 5 -> folder_set_order(config, config, args.folder, args.order[1])
      [] k = 6 -> folder_set_ignore_perms(config, config, args.folder,
                                          args.ignore_permissions)
      [] k = 7 -> folder_set_ignore_perms(config, config, args.folder, FALSE)

DeviceEditArgs ==
    [device : {"AAA", "bob"}, name : {<<>>, <<"carol">>},
     introducer : BOOLEAN, introducer_off : BOOLEAN,
     add_address : {<<>>, <<"tcp://a1">>}, remove_address : {<<>>, <<"dynamic">>}]

FolderEditArgs ==
    [folder : {"f1", "lab"}, label : {<<>>, <<"f2">>},
     rescan : {<<>>, <<0>>, <<40>>}, minfree : {<<>>, <<0>>, <<5>>},
     folder_type : {<<>>, <<"readonly">>}, order : {<<>>, <<"random">>},
     ignore_permissions : BOOLEAN, sync_permissions : BOOLEAN]

\* one or two devices named bob, one or two folders labelled lab
MainDocuments ==
    [devices : {<<Device("AAA", "bob")>>,
                <<Device("AAA", "bob"), Device("BBB", "bob")>>},
     folders : {<<Folder("f1", "lab", <<>>)>>,
                <<Folder("f1", "lab", <<>>), Folder("f2", "lab", <<>>)>>}]

InitMain ==
    /\ daemon \in MainDocuments
    /\ \/ \E args \in DeviceEditArgs :
              last = [op |-> "device edit", args |-> args, pc |-> 1,
                      ran |-> <<>>, err |-> "ok"]
       \/ \E args \in FolderEditArgs :
              last = [op |-> "folder edit", args |-> args, pc |-> 1,
                      ran |-> <<>>, err |-> "ok"]

MainDeviceEdit ==
    LET result == DeviceEditCall(last.pc, last.args, daemon)
    IN /\ last.op = "device edit"
       /\ last.pc <= DeviceEditSteps
       /\ last.err = "ok"
       /\ IF DeviceEditTaken(last.pc, last.args)
          THEN /\ daemon' = Submit(result)
               /\ last' = [last EXCEPT !.pc = @ + 1, !.ran = Append(@, last.pc),
                                       !.err = result.err]
          ELSE /\ last' = [last EXCEPT !.pc = @ + 1]
               /\ UNCHANGED daemon

MainFolderEdit ==
    LET result == FolderEditCall(last.pc, last.args, daemon)
    IN /\ last.op = "folder edit"
       /\ last.pc <= FolderEditSteps
       /\ last.err = "ok"
       /\ IF FolderEditTaken(last.pc, last.args)
          THEN /\ daemon' = Submit(result)
               /\ last' = [last EXCEPT !.pc = @ + 1, !.ran = Append(@, last.pc),
                                       !.err = result.err]
          ELSE /\ last' = [last EXCEPT !.pc = @ + 1]
               /\ UNCHANGED daemon

NextMain == MainDeviceEdit \/ MainFolderEdit

SpecMain == InitMain /\ [][NextMain]_vars

----------------------------------------------------------------------------
(* The command-sequence specification: a single writer runs device and     *)
(* folder commands one after the other, in any order and number.  Each     *)
(* command is drawn from a few argument values so that the documents       *)
(* reached stay within the bounds.                                         *)

\* the edits of a device tried in sequences: a rename and a change of ID
SeqDeviceEdits ==
    <<[prop |-> "name", value |-> "bob"],
      [prop |-> "deviceID", value |-> "AAA"]>>

\* one or two configured devices and folders labelled lab, each folder
\* shared with no device or one
SeqDocuments ==
    {config \in [devices : ListsUpTo({Device("AAA", "bob"), Device("BBB", "aaa")},
                                     MaxDevices),
                 folders : ListsUpTo({Folder(id, "lab", devices) :
                                          id \in FolderIDs, devices \in DeviceRefs},
                                     MaxFolders)] :
        WellFormed(config)}

InitSeq ==
    /\ daemon \in SeqDocuments
    /\ last = NoCall

SeqAddDevice ==
    \E device_id \in DeviceStrs :
        LET result == add_device(daemon, daemon, device_id, "bob", "dynamic",
                                 FALSE, FALSE)
        IN /\ last = NoCall
           /\ WithinBounds(Submit(result))
           /\ daemon' = Submit(result)
           /\ last' = [op |-> "add_device", device |-> device_id,
                       err |-> result.err, set |-> result.set]

SeqEditDevice ==
    \E devicestr \in DeviceStrs, e \in 1..Len(SeqDeviceEdits) :
        LET edit == SeqDeviceEdits[e]
            result == edit_device(daemon, daemon, devicestr, edit.prop, edit.value)
        IN /\ last = NoCall
           /\ daemon' = Submit(result)
           /\ last' = [op |-> "edit_device", device |-> devicestr,
                       prop |-> edit.prop, value |-> edit.value,
                       err |-> result.err, set |-> result.set]

SeqAddFolder ==
    \E folderid \in FolderIDs :
        LET result == add_folder(daemon, "/p1", folderid, "lab", "readwrite", 60)
        IN /\ last = NoCall
           /\ WithinBounds(Submit(result))
           /\ daemon' = Submit(result)
           /\ last' = [op |-> "add_folder", folder |-> folderid,
                       err |-> result.err, set |-> result.set]

NextSeq ==
    \/ SeqAddDevice
    \/ RemoveDevice
    \/ SeqEditDevice
    \/ SeqAddFolder
    \/ RemoveFolder
    \/ ShareFolder
    \/ UnshareFolder
    \/ Exit

SpecSeq == InitSeq /\ [][NextSeq]_vars

----------------------------------------------------------------------------
(* Properties of the resolvers, checked under SpecResolve.                 *)

\* k is the least of the positions matches
IsFirst(k, matches) ==
    /\ k \in matches
    /\ \A j \in 1..(k - 1) : j \notin matches

\* the positions of the daemon's devices that carry deviceID
Carriers(deviceID) ==
    {k \in 1..Len(daemon.devices) : daemon.devices[k].deviceID = deviceID}

\* the positions of the daemon's devices that are named name
Namesakes(name) ==
    {k \in 1..Len(daemon.devices) : daemon.devices[k].name = name}

\* some device of the daemon's document carries deviceID
Carried(deviceID) == Carriers(deviceID) # {}

\* some device of the daemon's document is named name
Named(name) == Namesakes(name) # {}

\* C1: device_info called with any spelling of the deviceID of a device of
\* the document returns the position of the first entry carrying that ID
\* and that entry's name, whatever the names of the other devices are.
C1_ResolveByID ==
    last.op = "device_info" =>
        \A k \in 1..Len(daemon.devices) :
            IsFirst(k, Carriers(misc_device_id(last.device)))
            => /\ last.info.index = k - 1
               /\ last.info.name = daemon.devices[k].name

\* C1 witness: "aaa" resolved to the second device, which carries AAA, while
\* the first device is named "aaa"
C1_Witness ==
    /\ last.op = "device_info"
    /\ last.device = "aaa"
    /\ Len(daemon.devices) = 2
    /\ daemon.devices[1].name = "aaa"
    /\ daemon.devices[1].deviceID = "BBB"
    /\ daemon.devices[2].deviceID = "AAA"
    /\ last.info.index = 1

\* C2 as claimed: for every identifier whose canonical form no device
\* carries (a well-formed ID included), device_info returns the position and
\* deviceID of the first device named exactly like the identifier.
C2_Original ==
    (last.op = "device_info" /\ ~Carried(misc_device_id(last.device))) =>
        \A k \in 1..Len(daemon.devices) :
            IsFirst(k, Namesakes(last.device))
            => /\ last.info.index = k - 1
               /\ last.info.id = daemon.devices[k].deviceID

\* C2 as amended: for an identifier that does not canonicalize, device_info
\* returns the position and deviceID of the first device named exactly like
\* it; for an identifier that canonicalizes to an ID no device carries, names
\* are not consulted: the index is None and the id is the canonical ID.
C2_ResolveByName ==
    last.op = "device_info" =>
        /\ misc_device_id(last.device) = None =>
               \A k \in 1..Len(daemon.devices) :
                   IsFirst(k, Namesakes(last.device))
                   => /\ last.info.index = k - 1
                      /\ last.info.id = daemon.devices[k].deviceID
        /\ (misc_device_id(last.device) # None /\ ~Carried(misc_device_id(last.device))) =>
               /\ last.info.index = NoIndex
               /\ last.info.id = misc_device_id(last.device)

\* C2 witness: two devices share the name "bob" and the first one is returned
C2_Witness ==
    /\ last.op = "device_info"
    /\ last.device = "bob"
    /\ Len(daemon.devices) = 2
    /\ daemon.devices[1].name = "bob"
    /\ daemon.devices[2].name = "bob"
    /\ daemon.devices[1].deviceID # daemon.devices[2].deviceID
    /\ last.info.index = 0
    /\ last.info.id = daemon.devices[1].deviceID

\* C3 as claimed: an identifier that matches no device by ID and none by
\* name yields a result whose deviceID and index are both None.
C3_Original ==
    (/\ last.op = "device_info"
     /\ ~Carried(misc_device_id(last.device))
     /\ ~Named(last.device)) =>
        /\ last.info.id = None
        /\ last.info.index = NoIndex

\* C3 as amended: an identifier that matches no device by ID and none by
\* name yields index None; its deviceID is None when the identifier does not
\* canonicalize and is the canonical ID when it does.
C3_Unmatched ==
    (/\ last.op = "device_info"
     /\ ~Carried(misc_device_id(last.device))
     /\ ~Named(last.device)) =>
        /\ last.info.index = NoIndex
        /\ last.info.id = misc_device_id(last.device)
        /\ last.info.id = None <=> ToUpper(last.device) \notin CanonIDs

\* C3 witness: a well-formed ID no device carries, in a document with devices
C3_Witness ==
    /\ last.op = "device_info"
    /\ last.device = "aaa"
    /\ Len(daemon.devices) > 0
    /\ ~Carried("AAA")
    /\ ~Named("aaa")
    /\ last.info.index = NoIndex
    /\ last.info.id = "AAA"

\* C4: folder_info returns the first folder whose id equals the identifier,
\* also when an earlier folder's label equals it; with no such id, the first
\* folder whose label equals it; with neither, None.  The index returned is
\* the folder's position.
C4_ResolveFolder ==
    last.op = "folder_info" =>
        LET byID == {k \in 1..Len(daemon.folders) : daemon.folders[k].id = last.folder}
            byLabel == {k \in 1..Len(daemon.folders) : daemon.folders[k].label = last.folder}
            Is(info, k) ==
                /\ ~info.none
                /\ info.index = k - 1
                /\ info.id = daemon.folders[k].id
                /\ info.label = daemon.folders[k].label
                /\ info.devices = daemon.folders[k].devices
        IN IF byID # {}
           THEN \A k \in 1..Len(daemon.folders) : IsFirst(k, byID) => Is(last.info, k)
           ELSE IF byLabel # {}
           THEN \A k \in 1..Len(daemon.folders) : IsFirst(k, byLabel) => Is(last.info, k)
           ELSE last.info = NoneInfo

\* C4 witness: the first folder's label is the second folder's id, and the
\* second folder is returned
C4_Witness ==
    /\ last.op = "folder_info"
    /\ last.folder = "f2"
    /\ Len(daemon.folders) = 2
    /\ daemon.folders[1].label = "f2"
    /\ daemon.folders[1].id = "f1"
    /\ daemon.folders[2].id = "f2"
    /\ ~last.info.none
    /\ last.info.index = 1

----------------------------------------------------------------------------
(* Properties of the mutation operations, checked under Spec.              *)

\* C5: after a successful add_device, device_info with the same identifier
\* returns a present index; add_device called again with any spelling of the
\* same deviceID fails with "Device already configured" and submits nothing,
\* and the document holds exactly one entry for that deviceID.
C5_AddThenResolve ==
    (last.op = "add_device" /\ last.err = "ok") =>
        /\ device_info(daemon, last.device).index # NoIndex
        /\ Cardinality(Carriers(misc_device_id(last.device))) = 1
        /\ \A again \in DeviceStrs, args \in AddDeviceArgs :
               misc_device_id(again) = misc_device_id(last.device) =>
                   LET second == add_device(daemon, daemon, again, args.name,
                                            args.address, args.dynamic, args.introducer)
                   IN /\ second.err = "Device already configured"
                      /\ ~second.set

\* C5 witness: add_device("aaa", ...) succeeded and the document holds AAA
C5_Witness ==
    /\ last.op = "add_device"
    /\ last.err = "ok"
    /\ last.device = "aaa"
    /\ Carriers("AAA") # {}

\* C6 as claimed: add_device fails with "Bad device ID", submitting nothing,
\* whenever its deviceID argument does not canonicalize, also when a
\* configured device's name equals the argument.
C6_BadDeviceID ==
    (last.op = "add_device" /\ misc_device_id(last.device) = None) =>
        /\ last.err = "Bad device ID"
        /\ ~last.set

C8_RemoveUnconfigured ==
    [][(/\ last'.op = "remove_device"
        /\ IF misc_device_id(last'.device) = None
           THEN ~Named(last'.device)
           ELSE ~Carried(misc_device_id(last'.device))) =>
           /\ last'.err = "Device not configured"
           /\ ~last'.set
           /\ daemon' = daemon]_vars

\* C8 witness: remove_device("aaa") refused although a device is named
\* "aaa", because "aaa" is a spelling of an ID that no device carries
C8_Witness ==
    /\ last.op = "remove_device"
    /\ last.err = "Device not configured"
    /\ last.device = "aaa"
    /\ Named("aaa")
    /\ ~Carried("AAA")

\* C9: a successful remove_device deletes exactly the entry the identifier
\* resolved to (the first device carrying the ID, or the first one with the
\* name), keeps every other device in order, and leaves every folder, its
\* device references included, as it was.
C9_RemoveOne ==
    [][(last'.op = "remove_device" /\ last'.err = "ok") =>
           LET resolved == IF misc_device_id(last'.device) = None
                           THEN Namesakes(last'.device)
                           ELSE Carriers(misc_device_id(last'.device))
           IN /\ last'.set
              /\ \E k \in 1..Len(daemon.devices) :
                     /\ IsFirst(k, resolved)
                     /\ Len(daemon'.devices) = Len(daemon.devices) - 1
                     /\ \A j \in 1..(k - 1) : daemon'.devices[j] = daemon.devices[j]
                     /\ \A j \in k..Len(daemon'.devices) :
                            daemon'.devices[j] = daemon.devices[j + 1]
              /\ daemon'.folders = daemon.folders]_vars

\* C9 witness: remove_device("bob") left a device named "bob" (the second of
\* two that shared the name) and a folder that still refers to a device the
\* document no longer holds
C9_Witness ==
    /\ last.op = "remove_device"
    /\ last.err = "ok"
    /\ last.device = "bob"
    /\ Len(daemon.devices) = 1
    /\ daemon.devices[1].name = "bob"
    /\ \E f \in 1..Len(daemon.folders) :
           \E k \in 1..Len(daemon.folders[f].devices) :
               ~Carried(daemon.folders[f].devices[k].deviceID)

\* C10: for a configured folder and a configured device not yet in the
\* folder's devices, share_folder succeeds and appends one reference naming
\* the device's ID to that folder, changing nothing else; sharing again
\* fails with "already associated" and submits nothing; unshare_folder then
\* removes that reference, restoring the document; and unsharing again
\* fails with "not associated" and submits nothing.
C10_ShareUnshare ==
    [][LET info == folder_info(daemon, last'.folder)
           deviceinfo == device_info(daemon, last'.device)
           f == info.index + 1
           again == share_folder(daemon', daemon', daemon', last'.folder, last'.device)
           undo == unshare_folder(daemon', daemon', daemon', last'.folder, last'.device)
           undoAgain == unshare_folder(undo.config, undo.config, undo.config,
                                       last'.folder, last'.device)
       IN (/\ last'.op = "share_folder"
           /\ ~info.none
           /\ deviceinfo.index # NoIndex
           /\ \A k \in 1..Len(info.devices) : info.devices[k].deviceID # deviceinfo.id) =>
              /\ last'.err = "ok"
              /\ last'.set
              /\ daemon'.devices = daemon.devices
              /\ Len(daemon'.folders) = Len(daemon.folders)
              /\ \A j \in 1..Len(daemon.folders) :
                     j # f => daemon'.folders[j] = daemon.folders[j]
              /\ daemon'.folders[f] =
                     [daemon.folders[f] EXCEPT
                         !.devices = Append(@, [deviceID |-> deviceinfo.id])]
              /\ again.err = "already associated"
              /\ ~again.set
              /\ undo.err = "ok"
              /\ undo.set
              /\ undo.config = daemon
              /\ undoAgain.err = "not associated"
              /\ ~undoAgain.set]_vars

\* C10 witness: a folder found by its label was shared with a device found
\* by its name and now holds two references
C10_Witness ==
    /\ last.op = "share_folder"
    /\ last.err = "ok"
    /\ last.folder = "lab"
    /\ last.device = "bob"
    /\ \E f \in 1..Len(daemon.folders) :
           /\ daemon.folders[f].label = "lab"
           /\ Len(daemon.folders[f].devices) = 2

----------------------------------------------------------------------------
(* unshare_folder in every document the mutation operations reach.         *)

\* the positions of the references of the folder info that name deviceID
References(info, deviceID) ==
    {k \in 1..Len(info.devices) : info.devices[k].deviceID = deviceID}

\* the step was a successful unshare_folder that deleted the first reference
\* to deviceID from the folder info resolved to, and nothing else
UnsharedFirst(info, deviceID) ==
    LET f == info.index + 1
    IN /\ last'.err = "ok"
       /\ last'.set
       /\ daemon'.devices = daemon.devices
       /\ Len(daemon'.folders) = Len(daemon.folders)
       /\ \A j \in 1..Len(daemon.folders) :
              j # f => daemon'.folders[j] = daemon.folders[j]
       /\ daemon'.folders[f] =
              [daemon.folders[f] EXCEPT
                  !.devices = DelAt(@, FirstIndex(References(info, deviceID)))]

\* C11 as stated: on a resolvable folder, unshare_folder fails with "not
\* associated" if the device's ID is not in the folder's devices, and
\* otherwise removes the first reference to it and replaces the document,
\* in every reachable document, those left by remove_device included.
C11_Original ==
    [][LET info == folder_info(daemon, last'.folder)
           deviceinfo == device_info(daemon, last'.device)
       IN (last'.op = "unshare_folder" /\ ~info.none) =>
              IF References(info, deviceinfo.id) = {}
              THEN /\ last'.err = "not associated"
                   /\ ~last'.set
                   /\ daemon' = daemon
              ELSE UnsharedFirst(info, deviceinfo.id)]_vars

\* C11: on a resolvable folder, unshare_folder first requires the device
\* identifier to resolve to a configured device: if it does not, the call
\* fails with "not a configured device name or ID" and submits nothing, even
\* when the folder holds a reference to that ID (as after remove_device);
\* if it does, the call fails with "not associated" when the device's ID is
\* not in the folder's devices, and otherwise removes the first reference
\* to it and replaces the document.
C11_Unshare ==
    [][LET info == folder_info(daemon, last'.folder)
           deviceinfo == device_info(daemon, last'.device)
       IN (last'.op = "unshare_folder" /\ ~info.none) =>
              IF deviceinfo.index = NoIndex
              THEN /\ last'.err = "not a configured device name or ID"
                   /\ ~last'.set
                   /\ daemon' = daemon
              ELSE IF References(info, deviceinfo.id) = {}
              THEN /\ last'.err = "not associated"
                   /\ ~last'.set
                   /\ daemon' = daemon
              ELSE UnsharedFirst(info, deviceinfo.id)]_vars

\* C11 witness: unshare_folder refused for a device ID that no device
\* carries while the resolved folder still holds a reference to it
C11_Witness ==
    /\ last.op = "unshare_folder"
    /\ last.err = "not a configured device name or ID"
    /\ misc_device_id(last.device) # None
    /\ ~Carried(misc_device_id(last.device))
    /\ ~folder_info(daemon, last.folder).none
    /\ References(folder_info(daemon, last.folder), misc_device_id(last.device)) # {}

----------------------------------------------------------------------------
(* Properties of the folder commands, checked under SpecFolder.            *)

\* the positions of the daemon's folders whose id is id
FoldersWithId(id) ==
    {k \in 1..Len(daemon.folders) : daemon.folders[k].id = id}

C13_AddFolder ==
    [][(last'.op = "add_folder" /\ last'.err = "ok") =>
           LET n == Len(daemon.folders)
               info == folder_info(daemon', last'.folder)
               added == daemon'.folders[n + 1]
           IN /\ last'.set
              /\ Len(daemon'.folders) = n + 1
              /\ ~info.none
              /\ info.index = n
              /\ info.id = last'.folder
              /\ added.id = last'.folder
              /\ added.type = last'.type
              /\ added.rescanIntervalS = last'.rescan
              /\ added.fsync = TRUE
              /\ added.autoNormalize = TRUE
              /\ added.maxConflicts = 10
              /\ added.minDiskFreePct = 1
              /\ added.pullerSleepS = 0
              /\ \A k \in 1..n : daemon'.folders[k] = daemon.folders[k]
              /\ daemon'.devices = daemon.devices]_vars

\* C13 witness: a read-only folder with rescan interval 40 was added after a
\* folder whose label is the new folder's id, next to a configured device
C13_Witness ==
    /\ last.op = "add_folder"
    /\ last.err = "ok"
    /\ last.type = "readonly"
    /\ last.rescan = 40
    /\ Len(daemon.folders) = 2
    /\ daemon.folders[1].label = last.folder
    /\ daemon.folders[2].type = "readonly"
    /\ daemon.devices # <<>>

----------------------------------------------------------------------------
(* Properties of the device edits, checked under SpecDevice.               *)

\* some configured device is what the identifier stands for: it carries the
\* ID the identifier spells or, for an identifier that spells no ID, its name
Resolves(devicestr) ==
    IF misc_device_id(devicestr) = None
    THEN Named(devicestr)
    ELSE Carried(misc_device_id(devicestr))

\* the two dicts agree on every key but prop
SameBut(before, after, prop) ==
    /\ DOMAIN after = DOMAIN before \cup {prop}
    /\ \A key \in DOMAIN before : key # prop => after[key] = before[key]

\* C14: edit_device on an unresolved identifier fails with "Device not
\* configured" and submits nothing; otherwise it sets the one property of
\* the resolved device to the value and leaves that device's other
\* properties, the other devices and all folders as they were, so that a
\* following edit_device of another property of the same device keeps the
\* first edit next to its own.
C14_EditDevice ==
    [][last'.op = "edit_device" =>
           IF ~Resolves(last'.device)
           THEN /\ last'.err = "Device not configured"
                /\ ~last'.set
                /\ daemon' = daemon
           ELSE LET d == device_info(daemon, last'.device).index + 1
                IN /\ last'.err = "ok"
                   /\ last'.set
                   /\ Len(daemon'.devices) = Len(daemon.devices)
                   /\ daemon'.devices[d][last'.prop] = last'.value
                   /\ SameBut(daemon.devices[d], daemon'.devices[d], last'.prop)
                   /\ \A j \in 1..Len(daemon.devices) :
                          j # d => daemon'.devices[j] = daemon.devices[j]
                   /\ daemon'.folders = daemon.folders
                   /\ \A devicestr \in DeviceStrs, e \in 1..Len(DeviceEdits) :
                          (/\ device_info(daemon', devicestr).index = d - 1
                           /\ DeviceEdits[e].prop # last'.prop) =>
                              LET then == edit_device(daemon', daemon', devicestr,
                                                      DeviceEdits[e].prop,
                                                      DeviceEdits[e].value)
                              IN /\ then.err = "ok"
                                 /\ then.set
                                 /\ then.config.devices[d][last'.prop] = last'.value
                                 /\ then.config.devices[d][DeviceEdits[e].prop] =
                                        DeviceEdits[e].value]_vars

\* C14 witness: the second of two devices, found by its name, had its
\* addresses replaced while a folder is configured
C14_Witness ==
    /\ last.op = "edit_device"
    /\ last.err = "ok"
    /\ last.prop = "addresses"
    /\ misc_device_id(last.device) = None
    /\ Len(daemon.devices) = 2
    /\ daemon.devices[1].addresses # <<"tcp://a2">>
    /\ daemon.devices[2].addresses = <<"tcp://a2">>
    /\ daemon.devices[2].name = last.device
    /\ daemon.folders # <<>>

\* C15: device_remove_address undoes device_add_address: for a configured
\* device and any address, one already in the device's list included,
\* adding the address and then removing it leaves the device's addresses
\* equal, in content and order, to what they were before the two calls.
C15_AddRemoveInverse ==
    [][(last'.op = "device_add_address" /\ last'.err = "ok") =>
           LET d == device_info(daemon, last'.device).index + 1
               undo == device_remove_address(daemon', daemon', daemon', daemon',
                                             last'.device, last'.address)
               after == IF undo.set THEN Served(undo.config) ELSE daemon'
           IN /\ undo.err = "ok"
              /\ after.devices[d].addresses = daemon.devices[d].addresses]_vars

\* the calls that end in folder_edit
FolderEditOps ==
    {"folder_edit", "folder_set_label", "folder_set_rescan", "folder_set_minfree",
     "folder_set_type", "folder_set_order", "folder_set_ignore_perms",
     "folder_setup_versioning_trashcan", "folder_setup_versioning_simple",
     "folder_setup_versioning_staggered", "folder_setup_versioning_external",
     "folder_setup_versioning_none"}

\* the folder property a call is to set
EditedProp(call) ==
    CASE call.op = "folder_edit" -> call.args.prop
      [] call.op = "folder_set_label" -> "label"
      [] call.op = "folder_set_rescan" -> "rescanIntervalS"
      [] call.op = "folder_set_minfree" -> "minDiskFreePct"
      [] call.op = "folder_set_type" -> "type"
      [] call.op = "folder_set_order" -> "order"
      [] call.op = "folder_set_ignore_perms" -> "ignorePerms"
      [] OTHER -> "versioning"

\* the number a sequence of digit characters writes
RECURSIVE DecimalValue(_)
DecimalValue(chars) ==
    IF chars = <<>> THEN 0
    ELSE 10 * DecimalValue(SubSeq(chars, 1, Len(chars) - 1))
         + (CHOOSE d \in 0..9 : DigitChars[d + 1] = chars[Len(chars)])

\* chars is the decimal string of the natural number n
IsDecimalOf(chars, n) ==
    /\ Len(chars) >= 1
    /\ \A k \in 1..Len(chars) : \E d \in 0..9 : DigitChars[d + 1] = chars[k]
    /\ Len(chars) > 1 => chars[1] # "0"
    /\ DecimalValue(chars) = n

\* value is what the call was given to store
IsGivenValue(call, value) ==
    CASE call.op = "folder_edit" -> value = call.args.value
      [] call.op = "folder_set_label" -> value = call.args.label
      [] call.op = "folder_set_rescan" -> value = call.args.rescan
      [] call.op = "folder_set_minfree" -> value = call.args.minfree
      [] call.op = "folder_set_type" -> value = call.args.folder_type
      [] call.op = "folder_set_order" -> value = call.args.order
      [] call.op = "folder_set_ignore_perms" -> value = call.args.ignore
      [] call.op = "folder_setup_versioning_trashcan" ->
             /\ value.type = "trashcan"
             /\ DOMAIN value.params = {"cleanoutDays"}
             /\ IsDecimalOf(value.params.cleanoutDays, call.args.cleanoutdays)
      [] call.op = "folder_setup_versioning_simple" ->
             /\ value.type = "simple"
             /\ DOMAIN value.params = {"keep"}
             /\ IsDecimalOf(value.params.keep, call.args.keep)
      [] call.op = "folder_setup_versioning_staggered" ->
             /\ value.type = "staggered"
             /\ value.params.versionsPath = call.args.path
      [] call.op = "folder_setup_versioning_external" ->
             /\ value.type = "external"
             /\ value.params = [command |-> call.args.command]
      [] call.op = "folder_setup_versioning_none" ->
             /\ value.type = ""
             /\ value.params = EmptyDict

\* C16: folder_edit and each setter built on it, called with an identifier
\* that resolves to a folder, succeed, set the one property of the resolved
\* folder to the value given and leave that folder's other properties, the
\* other folders and all devices as they were.
C16_FolderEdit ==
    [][(last'.op \in FolderEditOps /\ ~folder_info(daemon, last'.folder).none) =>
           LET f == folder_info(daemon, last'.folder).index + 1
               prop == EditedProp(last')
           IN /\ last'.err = "ok"
              /\ last'.set
              /\ Len(daemon'.folders) = Len(daemon.folders)
              /\ IsGivenValue(last', daemon'.folders[f][prop])
              /\ SameBut(daemon.folders[f], daemon'.folders[f], prop)
              /\ \A j \in 1..Len(daemon.folders) :
                     j # f => daemon'.folders[j] = daemon.folders[j]
              /\ daemon'.devices = daemon.devices]_vars

\* C16 witness: the second of two folders, found by its label, was given an
\* order while the first folder has none and a device is configured
C16_Witness ==
    /\ last.op = "folder_set_order"
    /\ last.err = "ok"
    /\ last.folder = "lab"
    /\ Len(daemon.folders) = 2
    /\ "order" \notin DOMAIN daemon.folders[1]
    /\ daemon.folders[2].label = "lab"
    /\ daemon.folders[2].order = last.args.order
    /\ daemon.devices # <<>>

\* C17: folder_setup_versioning_staggered on a folder that resolves replaces
\* its versioning with type "staggered", params.maxAge the decimal string of
\* maxage * 86400 (31536000 for 365, 0 for 0) and params.versionsPath the
\* path given, for every maxage from 0 to MaxAgeDays.
C17_Staggered ==
    [][(/\ last'.op = "folder_setup_versioning_staggered"
        /\ ~folder_info(daemon, last'.folder).none) =>
           LET f == folder_info(daemon, last'.folder).index + 1
               versioning == daemon'.folders[f].versioning
           IN /\ last'.set
              /\ DOMAIN versioning = {"params", "type"}
              /\ versioning.type = "staggered"
              /\ IsDecimalOf(versioning.params.maxAge, last'.args.maxage * 86400)
              /\ last'.args.maxage = 365 =>
                     versioning.params.maxAge = <<"3", "1", "5", "3", "6", "0", "0", "0">>
              /\ last'.args.maxage = 0 => versioning.params.maxAge = <<"0">>
              /\ versioning.params.versionsPath = last'.args.path]_vars

\* C17 witness: a folder found by its label holds staggered versioning of
\* 365 days with a versions path
C17_Witness ==
    /\ last.op = "folder_setup_versioning_staggered"
    /\ last.err = "ok"
    /\ last.args = [maxage |-> 365, path |-> "/v"]
    /\ last.folder = "lab"
    /\ \E f \in 1..Len(daemon.folders) :
           /\ daemon.folders[f].label = "lab"
           /\ daemon.folders[f].versioning.type = "staggered"
           /\ Len(daemon.folders[f].versioning.params.maxAge) = 8

----------------------------------------------------------------------------
(* Properties of two racing commands, checked under SpecRace.              *)

\* what the call does when it runs alone on the document the race began with
Alone(call) == Run(call, [k \in 1..NumFetches(call) |-> last.doc0])

\* both commands have ended, a replaced the document first, and b made all
\* its fetches before that
Overtaken(a, b) ==
    /\ a # b
    /\ last[a].pc = "done"
    /\ last[b].pc = "done"
    /\ last[a].turn = 1
    /\ ~last[b].late

----------------------------------------------------------------------------
(* Properties of the edit commands, checked under SpecMain.                *)

\* the command line asks for the change of the k-th if statement
Requested(op, k, args) ==
    IF op = "device edit"
    THEN CASE k = 1 -> args.name # <<>>
           [] k = 2 -> args.introducer
           [] k = 3 -> args.introducer_off
           [] k = 4 -> args.add_address # <<>>
           [] k = 5 -> args.remove_address # <<>>
    ELSE CASE k = 1 -> args.label # <<>>
           [] k = 2 -> args.rescan # <<>>
           [] k = 3 -> args.minfree # <<>>
           [] k = 4 -> args.folder_type # <<>>
           [] k = 5 -> args.order # <<>>
           [] k = 6 -> args.ignore_permissions
           [] k = 7 -> args.sync_permissions

\* the call that makes the change of the k-th if statement on config
ChangeCall(op, k, args, config) ==
    IF op = "device edit" THEN DeviceEditCall(k, args, config)
    ELSE FolderEditCall(k, args, config)

\* C19: in an edit command with several properties, main() goes through the
\* changes in its fixed order; each change the command line asks for is
\* applied on its own, as one read-modify-write of the document the daemon
\* holds then; a change that fails leaves the document as the earlier
\* changes wrote it and ends the command, so no later change is attempted.
C19_MultiEdit ==
    [][last.op \in {"device edit", "folder edit"} =>
           LET k == last.pc
               result == ChangeCall(last.op, k, last.args, daemon)
           IN /\ last.err = "ok"
              /\ last'.pc = k + 1
              /\ IF Requested(last.op, k, last.args)
                 THEN /\ last'.ran = Append(last.ran, k)
                      /\ last'.err = result.err
                      /\ daemon' = IF result.set THEN Served(result.config)
                                   ELSE daemon
                      /\ result.err # "ok" => daemon' = daemon
                 ELSE /\ last'.ran = last.ran
                      /\ last'.err = "ok"
                      /\ daemon' = daemon]_vars

----------------------------------------------------------------------------
(* The folders list of device_info, checked under SpecResolve.             *)

\* the references to deviceID in the daemon's folders: <<f, k>> for the k-th
\* entry of the f-th folder's devices
Hits(deviceID) ==
    {pair \in UNION {{<<f, k>> : k \in 1..Len(daemon.folders[f].devices)} :
                        f \in 1..Len(daemon.folders)} :
        daemon.folders[pair[1]].devices[pair[2]].deviceID = deviceID}

\* the place of a reference among those of Hits(deviceID), counted in
\* folder order and, within a folder, in the order of its devices
Rank(pair, deviceID) ==
    1 + Cardinality({q \in Hits(deviceID) :
                        \/ q[1] < pair[1]
                        \/ q[1] = pair[1] /\ q[2] < pair[2]})

\* C20: for a device that resolves, the folders list of device_info holds,
\* in folder order, the id of each folder once for every entry of its
\* devices that names the resolved device's ID (twice for a folder with a
\* duplicated reference), and nothing else; it is empty when no folder
\* refers to the device.
C20_DeviceFolders ==
    (last.op = "device_info" /\ last.info.index # NoIndex) =>
        LET deviceID == daemon.devices[last.info.index + 1].deviceID
        IN /\ Len(last.info.folders) = Cardinality(Hits(deviceID))
           /\ \A pair \in Hits(deviceID) :
                  last.info.folders[Rank(pair, deviceID)] = daemon.folders[pair[1]].id
           /\ Hits(deviceID) = {} => last.info.folders = <<>>

\* C20 witness: the device found by name is referred to twice by the first
\* folder and once, after another device, by the second
C20_Witness ==
    /\ last.op = "device_info"
    /\ last.device = "bob"
    /\ last.info.id = "AAA"
    /\ last.info.folders = <<"f2", "f2", "f1">>
    /\ Len(daemon.folders) = 2
    /\ Len(daemon.folders[1].devices) = 2
    /\ daemon.folders[2].devices[1].deviceID = "BBB"

----------------------------------------------------------------------------
(* Invariants of the document over sequences of commands.                  *)

\* no folder of the document holds two references to the same device ID
NoDuplicateRefs(config) ==
    \A f \in 1..Len(config.folders) :
        \A i, j \in 1..Len(config.folders[f].devices) :
            config.folders[f].devices[i].deviceID = config.folders[f].devices[j].deviceID
                => i = j

\* C21: from a document in which no folder holds a duplicate reference,
\* after any sequence of add_device, remove_device, edit_device,
\* add_folder, remove_folder, share_folder and unshare_folder by a single
\* writer, no folder's devices hold two entries with the same device ID.
C21_NoDuplicateRefs == NoDuplicateRefs(daemon)

\* C21 witness: after an edit gave both devices the same ID, sharing a
\* folder with the second one, found by its name, was refused because the
\* folder already refers to that ID
C21_Witness ==
    /\ last.op = "share_folder"
    /\ last.err = "already associated"
    /\ misc_device_id(last.device) = None
    /\ Len(daemon.devices) = 2
    /\ daemon.devices[1].deviceID = daemon.devices[2].deviceID
    /\ daemon.devices[1].name # last.device
    /\ daemon.devices[2].name = last.device

\* the ids of the document's folders, in order
FolderIdList(config) == [f \in 1..Len(config.folders) |-> config.folders[f].id]

\* C22: from a document whose folder ids are pairwise distinct, add_folder,
\* remove_folder, folder_edit with any property name and the folder setters
\* leave the folder ids of the daemon's document pairwise distinct.
C22_DistinctFolderIDs == Distinct(FolderIdList(daemon))

----------------------------------------------------------------------------
(* The entries a racing command touches, checked under SpecRace.           *)

\* every element of the list before whose key is not id is an element of
\* the list after, unchanged
OthersKept(before, after, ids, id) ==
    \A i \in 1..Len(before) :
        ids[i] # id => \E j \in 1..Len(after) : after[j] = before[i]

DeviceIdList(config) == [d \in 1..Len(config.devices) |-> config.devices[d].deviceID]

\* the command of process p replaced the document, and every device or
\* folder of the document it mutated other than the one its identifier
\* resolved to is in the document it submitted, unchanged
TouchedOnlyResolved(p) ==
    LET call == last[p].call
        snaps == last[p].snaps
        written == Run(call, snaps).config
    IN CASE call.op = "remove_device" ->
                OthersKept(snaps[1].devices, written.devices, DeviceIdList(snaps[1]),
                           device_info(snaps[2], call.device).id)
         [] call.op = "remove_folder" ->
                OthersKept(snaps[2].folders, written.folders, FolderIdList(snaps[2]),
                           folder_info(snaps[1], call.folder).id)
         [] call.op = "share_folder" ->
                OthersKept(snaps[3].folders, written.folders, FolderIdList(snaps[3]),
                           folder_info(snaps[1], call.folder).id)
         [] call.op = "folder_edit" ->
                OthersKept(snaps[1].folders, written.folders, FolderIdList(snaps[1]),
                           folder_info(snaps[2], call.folder).id)
         [] OTHER -> TRUE

\* C23: the entry a command changes is the entry it resolved even when
\* another writer replaces the daemon's document between the command's
\* steps: a remove_device that replaces the document deletes no device whose
\* ID differs from the one its identifier resolved to, and a share_folder,
\* remove_folder or folder_edit that replaces the document changes and
\* deletes no folder other than the one resolved.
C23_ResolvedEntry ==
    \A p \in Invocations :
        (last[p].pc = "done" /\ last[p].set) => TouchedOnlyResolved(p)

----------------------------------------------------------------------------
(* Errors of the folder setters, checked under SpecFolder.                 *)

\* the exceptions of Python itself, which are neither SyncthingError nor
\* SyncthingManagerError
BuiltinErrors == {"TypeError", "IndexError"}

\* main's except clauses: a call that raised a SyncthingManagerError ends
\* with its message printed and exit status 1; any other exception leaves
\* main as a traceback
main_catches(err) == err \notin BuiltinErrors \cup {"ok", "none"}

\* C24: folder_edit and every setter built on it, called with an identifier
\* that matches no folder id and no folder label, fail with the
\* SyncthingManagerError 'Folder not configured', which main catches, and
\* submit no replacement document.
C24_FolderNotConfigured ==
    [][(last'.op \in FolderEditOps /\ folder_info(daemon, last'.folder).none) =>
           /\ last'.err = "Folder not configured"
           /\ main_catches(last'.err)
           /\ ~last'.set
           /\ daemon' = daemon]_vars

====
